---- MODULE Spec2Model ----
(***************************************************************************)
(* A model of src/magpylibutils.py: DiscreteSourceBox, SensorCollection,   *)
(* getBarray, SurfaceSensor and CircularSensorArray.                       *)
(*                                                                         *)
(* Numbers.  Positions, displacements and field vectors are triples of     *)
(* integers.  Rotations are those of the cube: a multiple of 90 degrees    *)
(* about a coordinate axis, of 120 degrees about a space diagonal, of 180  *)
(* degrees about a face diagonal.  On these the floating point arithmetic  *)
(* of the program is exact up to rounding, and the model computes the      *)
(* same values exactly.  An orientation is the pair (angle, axis) the      *)
(* program stores; an axis is kept as its direction, a vector of signs.    *)
(***************************************************************************)
EXTENDS Integers, Sequences, FiniteSets, TLC

VARIABLES
    rcs,      \* SensorCollection.rcs: the collection's own RCS
    sensors,  \* SensorCollection.sensors: the child list (object identities)
    objs,     \* the sensor objects: identity -> RCS state of that object
    ref,      \* history: objs as of the last change of the child list
    last,     \* history: the last call on the collection, with the state before it
    steps,    \* history: number of calls made so far
    fq,       \* the last field query: its inputs and what it returned
    ss,       \* a SurfaceSensor
    lastU,    \* history: the last call on the SurfaceSensor
    csa,      \* a CircularSensorArray
    lastC     \* history: the last call on the CircularSensorArray

vars == <<rcs, sensors, objs, ref, last, steps, fq, ss, lastU, csa, lastC>>

collVars == <<rcs, sensors, objs, ref, last>>
fieldVars == <<fq>>
surfVars == <<ss, lastU>>
circVars == <<csa, lastC>>

----------------------------------------------------------------------------
(* Bounds of the model *)

\* calls made on an object in one behaviour
MaxSteps == 3
\* sensor objects that exist
NumSensors == 3
\* points of a position batch
MaxPts == 2

----------------------------------------------------------------------------
(* Vectors: numpy arrays of shape (3,) *)

VAdd(a, b) == <<a[1] + b[1], a[2] + b[2], a[3] + b[3]>>

VSub(a, b) == <<a[1] - b[1], a[2] - b[2], a[3] - b[3]>>

VNeg(a) == <<-a[1], -a[2], -a[3]>>

VScale(k, a) == <<k * a[1], k * a[2], k * a[3]>>

VHalf(a) == <<a[1] \div 2, a[2] \div 2, a[3] \div 2>>

Dot(a, b) == a[1] * b[1] + a[2] * b[2] + a[3] * b[3]

Cross(a, b) ==
    <<a[2] * b[3] - a[3] * b[2], a[3] * b[1] - a[1] * b[3], a[1] * b[2] - a[2] * b[1]>>

Dist2(a, b) == Dot(VSub(a, b), VSub(a, b))

Sign(x) == IF x > 0 THEN 1 ELSE IF x < 0 THEN -1 ELSE 0

Abs(x) == IF x < 0 THEN -x ELSE x

\* the direction of an axis: the library normalises every axis it is given
Dir(a) == <<Sign(a[1]), Sign(a[2]), Sign(a[3])>>

\* an axis of the cube: its non-zero components have one magnitude
CubeAxis(a) ==
    /\ a # <<0, 0, 0>>
    /\ \A i, j \in 1..3 : (a[i] # 0 /\ a[j] # 0) => Abs(a[i]) = Abs(a[j])

\* 1: coordinate axis, 2: face diagonal, 3: space diagonal
AxisType(a) == Dot(Dir(a), Dir(a))

\* the rotation (angle, axis) maps the integer lattice onto itself
Representable(angle, axis) ==
    /\ CubeAxis(axis)
    /\ angle % (CASE AxisType(axis) = 1 -> 90
                 [] AxisType(axis) = 2 -> 180
                 [] AxisType(axis) = 3 -> 120) = 0

CosDeg(t) ==
    CASE t % 360 = 0 -> 1
      [] t % 360 = 90 -> 0
      [] t % 360 = 180 -> -1
      [] t % 360 = 270 -> 0

SinDeg(t) ==
    CASE t % 360 = 0 -> 0
      [] t % 360 = 90 -> 1
      [] t % 360 = 180 -> 0
      [] t % 360 = 270 -> -1

\* angleAxisRotation(v, angle, axis) about the origin (Rodrigues' formula)
Rot(angle, axis, v) ==
    LET a == Dir(axis)
        t == angle % 360
    IN  IF t = 0 THEN v
        ELSE CASE AxisType(axis) = 1 ->
                    VAdd(VAdd(VScale(CosDeg(t), v), VScale(SinDeg(t), Cross(a, v))),
                         VScale((1 - CosDeg(t)) * Dot(a, v), a))
               [] AxisType(axis) = 2 ->
                    VAdd(VNeg(v), VScale(Dot(a, v), a))
               [] AxisType(axis) = 3 ->
                    VHalf(VAdd(VAdd(VNeg(v),
                                    VScale(IF t = 120 THEN 1 ELSE -1, Cross(a, v))),
                               VScale(Dot(a, v), a)))

\* angleAxisRotation(v, angle, axis, anchor)
RotAbout(angle, axis, anchor, v) == VAdd(Rot(angle, axis, VSub(v, anchor)), anchor)

----------------------------------------------------------------------------
(* Orientation quaternions.  A component is a pair <<p, q>> standing for   *)
(* (p + q*sqrt(2))/2: the 48 unit quaternions of the cube's rotations have *)
(* components 0, +-1, +-1/2 and +-sqrt(2)/2.                               *)

N0 == <<0, 0>>

NAdd(x, y) == <<x[1] + y[1], x[2] + y[2]>>

NNeg(x) == <<-x[1], -x[2]>>

\* the product, in quarters
NMul4(x, y) == <<x[1] * y[1] + 2 * x[2] * y[2], x[1] * y[2] + x[2] * y[1]>>

NSum4(a, b, c, d) ==
    LET s == NAdd(NAdd(a, b), NAdd(c, d)) IN <<s[1] \div 2, s[2] \div 2>>

NSign(x) == IF x[1] # 0 THEN Sign(x[1]) ELSE Sign(x[2])

\* cos and sin of k*45 degrees
Cos45(k) ==
    CASE k % 8 = 0 -> <<2, 0>>
      [] k % 8 = 1 -> <<0, 1>>
      [] k % 8 = 2 -> N0
      [] k % 8 = 3 -> <<0, -1>>
      [] k % 8 = 4 -> <<-2, 0>>
      [] k % 8 = 5 -> <<0, -1>>
      [] k % 8 = 6 -> N0
      [] k % 8 = 7 -> <<0, 1>>

Sin45(k) == Cos45(k + 6)

\* cos(k*60), and sin(k*60)/sqrt(3): a component of sin * (unit space diagonal)
Cos60(k) ==
    CASE k % 6 = 0 -> <<2, 0>>
      [] k % 6 = 1 -> <<1, 0>>
      [] k % 6 = 2 -> <<-1, 0>>
      [] k % 6 = 3 -> <<-2, 0>>
      [] k % 6 = 4 -> <<-1, 0>>
      [] k % 6 = 5 -> <<1, 0>>

Sin60r3(k) ==
    CASE k % 6 \in {0, 3} -> N0
      [] k % 6 \in {1, 2} -> <<1, 0>>
      [] k % 6 \in {4, 5} -> <<-1, 0>>

\* sin(k*90)/sqrt(2): a component of sin * (unit face diagonal)
Sin90r2(k) ==
    CASE k % 4 \in {0, 2} -> N0
      [] k % 4 = 1 -> <<0, 1>>
      [] k % 4 = 3 -> <<0, -1>>

NScaleSign(s, x) == IF s > 0 THEN x ELSE IF s < 0 THEN NNeg(x) ELSE N0

\* getRotQuat(angle, axis) = [cos(angle/2), sin(angle/2) * axis/|axis|]
getRotQuat(angle, axis) ==
    LET a == Dir(axis)
        t == angle % 720
        c == CASE AxisType(axis) = 1 -> Cos45(t \div 90)
               [] AxisType(axis) = 2 -> Cos45(2 * (t \div 180))
               [] AxisType(axis) = 3 -> Cos60(t \div 120)
        s == CASE AxisType(axis) = 1 -> Sin45(t \div 90)
               [] AxisType(axis) = 2 -> Sin90r2(t \div 180)
               [] AxisType(axis) = 3 -> Sin60r3(t \div 120)
    IN  IF t = 0 THEN <<<<2, 0>>, N0, N0, N0>>
        ELSE IF t = 360 THEN <<<<-2, 0>>, N0, N0, N0>>
        ELSE <<c, NScaleSign(a[1], s), NScaleSign(a[2], s), NScaleSign(a[3], s)>>

\* Qmult(P, Q): the Hamilton product
Qmult(P, Q) ==
    << NSum4(NMul4(P[1], Q[1]), NNeg(NMul4(P[2], Q[2])),
             NNeg(NMul4(P[3], Q[3])), NNeg(NMul4(P[4], Q[4]))),
       NSum4(NMul4(P[1], Q[2]), NMul4(P[2], Q[1]),
             NMul4(P[3], Q[4]), NNeg(NMul4(P[4], Q[3]))),
       NSum4(NMul4(P[1], Q[3]), NNeg(NMul4(P[2], Q[4])),
             NMul4(P[3], Q[1]), NMul4(P[4], Q[2])),
       NSum4(NMul4(P[1], Q[4]), NMul4(P[2], Q[3]),
             NNeg(NMul4(P[3], Q[2])), NMul4(P[4], Q[1])) >>

\* 2*arccos(R[0]) in degrees
QAngle(R) ==
    CASE R[1] = <<2, 0>> -> 0
      [] R[1] = <<0, 1>> -> 90
      [] R[1] = <<1, 0>> -> 120
      [] R[1] = N0 -> 180
      [] R[1] = <<-1, 0>> -> 240
      [] R[1] = <<0, -1>> -> 270
      [] R[1] = <<-2, 0>> -> 360

\* R[1:] / |R[1:]|
QAxis(R) == <<NSign(R[2]), NSign(R[3]), NSign(R[4])>>

----------------------------------------------------------------------------
(* RCS: the library's rigid coordinate system (position, angle, axis),     *)
(* the base of Sensor and SurfaceSensor and the collection's own frame.    *)

RCS(position, angle, axis) == [position |-> position, angle |-> angle, axis |-> axis]

\* RCS.move(displacement)
RCSmove(r, displacement) == [r EXCEPT !.position = VAdd(r.position, displacement)]

\* the anchor RCS.rotate uses: the default 'self.position', written
\* <<"self.position">> here, stands for the object's position at the time of
\* the call
RCSanchor(r, anchor) == IF Len(anchor) = 1 THEN r.position ELSE anchor

\* the directions of the cube's rotation axes
Directions == {a \in {-1, 0, 1} \X {-1, 0, 1} \X {-1, 0, 1} : a # <<0, 0, 0>>}

\* the orientations (angle, axis) an RCS of the model can hold
Orientations ==
    {o \in {0, 90, 120, 180, 240, 270, 360} \X Directions : Representable(o[1], o[2])}

\* the (angle, axis) a rotate call of the model can be given
Rotations ==
    {o \in {30 * k - 360 : k \in 0..24} \X Directions : Representable(o[1], o[2])}

\* The orientation after RCS.rotate: the product of the rotation's quaternion
\* and the orientation's, read back as (angle, axis).  At the quaternion -1
\* the axis is 0/0, written <<0, 0, 0>>.
Reorient(o, rot) ==
    LET R == Qmult(getRotQuat(rot[1], rot[2]), getRotQuat(o[1], o[2]))
        ang3 == QAngle(R)
    IN  <<ang3, IF ang3 = 0 THEN <<0, 0, 1>> ELSE QAxis(R)>>

\* Reorient, tabulated
ReorientTable == [x \in Orientations \X Rotations |-> Reorient(x[1], x[2])]

\* RCS.rotate(angle, axis, anchor)
RCSrotate(r, angle, axis, anchor) ==
    LET o == ReorientTable[<<<<r.angle, Dir(r.axis)>>, <<angle, Dir(axis)>>>>]
    IN  [r EXCEPT !.position = RotAbout(angle, axis, RCSanchor(r, anchor), r.position),
                  !.angle = o[1],
                  !.axis = o[2]]

\* RCS.rotate is defined on r: both rotations are rotations of the cube, and
\* the product is not the quaternion -1, whose axis is 0/0
RCSrotateDefined(r, angle, axis) ==
    /\ <<angle, Dir(axis)>> \in Rotations
    /\ <<r.angle, Dir(r.axis)>> \in Orientations
    /\ CubeAxis(axis)
    /\ CubeAxis(r.axis)
    /\ ReorientTable[<<<<r.angle, Dir(r.axis)>>, <<angle, Dir(axis)>>>>][2] # <<0, 0, 0>>

----------------------------------------------------------------------------
(* SensorCollection *)

\* An object handed to addSensor, removeSensor or +: its class, its identity
\* (sensors) and its own child list (collections, Python lists).
Obj(cls, id, kids) == [cls |-> cls, id |-> id, sensors |-> kids]

SensorIds == 1..NumSensors

\* every third sensor object is a SurfaceSensor, the others are Sensors
SensorObj(i) == Obj(IF i % 3 = 0 THEN "SurfaceSensor" ELSE "Sensor", i, <<>>)

\* where the sensor objects were constructed
SensorPos(i) == <<i, (i * i) % 5, 3 * (i \div 3)>>

\* isinstance(s, (Sensor, SurfaceSensor))
IsSensor(s) == s.cls \in {"Sensor", "SurfaceSensor"}

\* isinstance(s, SensorCollection): the class or a subclass of it
IsSensorCollection(s) == s.cls \in {"SensorCollection", "CircularSensorArray"}

\* s in self.sensors
In(s, list) == \E k \in 1..Len(list) : list[k] = s

\* self.sensors.remove(s): the first occurrence goes
RECURSIVE ListRemove(_, _)
ListRemove(list, s) ==
    IF list = <<>> THEN <<>>
    ELSE IF Head(list) = s THEN Tail(list)
    ELSE <<Head(list)>> \o ListRemove(Tail(list), s)

\* an addSensor that appends without looking for the sensor in the list
RECURSIVE addSensorAlways(_, _)
addSensorAlways(list, args) ==
    IF args = <<>> THEN list
    ELSE LET s == Head(args)
             l2 == IF IsSensor(s) THEN Append(list, s)
                   ELSE IF IsSensorCollection(s) THEN addSensorAlways(list, s.sensors)
                   ELSE list
         IN  addSensorAlways(l2, Tail(args))

\* addSensor(*sensors) on the child list
RECURSIVE addSensor(_, _)
addSensor(list, args) ==
    IF args = <<>> THEN list
    ELSE LET s == Head(args)
             l2 == IF IsSensor(s) /\ ~In(s, list) THEN Append(list, s)
                   ELSE IF IsSensorCollection(s) THEN addSensor(list, s.sensors)
                   ELSE list
         IN  addSensor(l2, Tail(args))

\* removeSensor(*sensors) on the child list
RECURSIVE removeSensor(_, _)
removeSensor(list, args) ==
    IF args = <<>> THEN list
    ELSE LET s == Head(args)
             l2 == IF IsSensor(s) /\ In(s, list) THEN ListRemove(list, s)
                   ELSE IF IsSensorCollection(s) THEN removeSensor(list, s.sensors)
                   ELSE list
         IN  removeSensor(l2, Tail(args))

\* SensorCollection(*sensors).sensors: the constructor's addSensor on []
NewCollection(args) == addSensor(<<>>, args)

\* the assert of __add__ and __sub__
AddAsserts(other) == other.cls \in {"SensorCollection", "CircularSensorArray", "Sensor"}

\* self + other: what is raised, and the child list of the collection returned.
\* The constructor is handed ONE argument, the list self.sensors + sens.
add(list, other) ==
    IF ~AddAsserts(other)
    THEN [raised |-> "AssertionError", result |-> <<>>]
    ELSE LET sens == IF ~IsSensorCollection(other) THEN <<other>> ELSE other.sensors
         IN  [raised |-> "", result |-> NewCollection(<<Obj("list", 0, list \o sens)>>)]

\* self - other
sub(list, other) ==
    IF ~AddAsserts(other)
    THEN [raised |-> "AssertionError", result |-> <<>>]
    ELSE LET sens == IF ~IsSensorCollection(other) THEN <<other>> ELSE other.sensors
             col == NewCollection(<<Obj("list", 0, list)>>)
         IN  [raised |-> "", result |-> removeSensor(col, <<Obj("list", 0, sens)>>)]

\* the identities in a child list
Ids(list) == {list[k].id : k \in 1..Len(list)}

\* The collection with the objects it refers to
Coll(r, list, o) == [rcs |-> r, sensors |-> list, objs |-> o]

\* the default of rotate's anchor parameter
SelfPosition == <<"self.position">>

\* str(anchor) == 'self.position'
IsSelfPosition(anchor) == Len(anchor) = 1

\* a move that reaches the point sensors among the children only
MoveSensorChildren(c, displacement) ==
    [i \in DOMAIN c.objs |->
        IF i \in Ids(c.sensors) /\ SensorObj(i).cls = "Sensor"
        THEN RCSmove(c.objs[i], displacement) ELSE c.objs[i]]

\* for s in self.sensors: s.move(displacement)
MoveChildren(c, displacement) ==
    [i \in DOMAIN c.objs |->
        IF i \in Ids(c.sensors) THEN RCSmove(c.objs[i], displacement) ELSE c.objs[i]]

\* move(displacement)
move(c, displacement) ==
    [c EXCEPT !.rcs = RCSmove(c.rcs, displacement),
              !.objs = MoveChildren(c, displacement)]

\* a default anchor fixed at the position collections are constructed with
ResolveAnchorConstructed(r, anchor) == IF IsSelfPosition(anchor) THEN <<0, 0, 0>> ELSE anchor

\* the anchor the children are rotated about: rotate's parameter, the
\* collection's position (after its own rotation) standing in for the default
ResolveAnchor(r, anchor) == IF IsSelfPosition(anchor) THEN r.position ELSE anchor

\* for s in self.sensors: s.rotate(angle, axis, anchor=anchor)
RotateChildren(c, angle, axis, anchor) ==
    [i \in DOMAIN c.objs |->
        IF i \in Ids(c.sensors) THEN RCSrotate(c.objs[i], angle, axis, anchor)
        ELSE c.objs[i]]

\* rotate(angle, axis, anchor='self.position')
rotate(c, angle, axis, anchor) ==
    LET r2 == RCSrotate(c.rcs, angle, axis, anchor)
    IN  [c EXCEPT !.rcs = r2,
                  !.objs = RotateChildren(c, angle, axis, ResolveAnchor(r2, anchor))]

\* the library computes this rotation of the collection without a 0/0
rotateDefined(c, angle, axis) ==
    /\ RCSrotateDefined(c.rcs, angle, axis)
    /\ \A i \in Ids(c.sensors) : RCSrotateDefined(c.objs[i], angle, axis)

\* position.setter
setPosition(c, value) == move(c, VSub(value, c.rcs.position))

\* angle.setter
setAngle(c, value) == rotate(c, value - c.rcs.angle, c.rcs.axis, c.rcs.position)

\* axis.setter
setAxis(c, value) ==
    LET angle == c.rcs.angle
        c1 == rotate(c, -angle, c.rcs.axis, c.rcs.position)
    IN  rotate(c1, angle, value, c1.rcs.position)

setAxisDefined(c, value) ==
    /\ rotateDefined(c, -c.rcs.angle, c.rcs.axis)
    /\ rotateDefined(rotate(c, -c.rcs.angle, c.rcs.axis, c.rcs.position), c.rcs.angle, value)

----------------------------------------------------------------------------
(* The calls made on a SensorCollection *)

\* the objects handed to addSensor, removeSensor, + and -
ArgObjects ==
    {SensorObj(i) : i \in SensorIds}
    \cup {Obj("SensorCollection", 0, <<SensorObj(1), SensorObj(2)>>),
          Obj("SensorCollection", 0, <<SensorObj(NumSensors), SensorObj(1)>>),
          Obj("int", 42, <<>>)}

\* calls with one argument and with two
ArgLists == {<<a>> : a \in ArgObjects} \cup {<<a, b>> : a, b \in ArgObjects}

\* calls with one sensor for argument
OneSensor == {<<SensorObj(i)>> : i \in SensorIds}

\* the arguments the collections of the geometry runs are constructed with
SomeSensors ==
    {<<SensorObj(1), SensorObj(2)>>,
     <<Obj("SensorCollection", 0, <<SensorObj(NumSensors), SensorObj(1)>>), SensorObj(2)>>}

Displacements == {<<1, 0, 0>>, <<0, -2, 1>>}

Angles == {90, 180}

Axes == {<<1, 0, 0>>, <<0, 0, 1>>}

Anchors == {SelfPosition, <<1, 1, 0>>}

PositionValues == {<<0, 0, 0>>, <<2, 1, 0>>}

AngleValues == {0, 90, 240}

\* the objects as constructed: Sensor(pos=SensorPos(i)), angle 0, axis (0,0,1)
Objs0 == [i \in SensorIds |-> RCS(SensorPos(i), 0, <<0, 0, 1>>)]

Here == Coll(rcs, sensors, objs)

\* one more call on the collection; the other objects are not touched
CollStep ==
    /\ steps < MaxSteps
    /\ steps' = steps + 1
    /\ UNCHANGED <<fieldVars, surfVars, circVars>>

Call(op, args, angle, axis, anchor, value, raised, result) ==
    [op |-> op, args |-> args, angle |-> angle, axis |-> axis, anchor |-> anchor,
     value |-> value, raised |-> raised, result |-> result, before |-> Here]

\* SensorCollection(*sensors, pos=pos), the arguments drawn from argLists
Construct(argLists) ==
    /\ \E pos \in PositionValues, args \in argLists :
          /\ rcs = RCS(pos, 0, <<0, 0, 1>>)
          /\ sensors = NewCollection(args)
          /\ last = [op |-> "init", args |-> args, angle |-> 0, axis |-> <<0, 0, 1>>,
                     anchor |-> SelfPosition, value |-> pos, raised |-> "",
                     result |-> <<>>,
                     before |-> Coll(RCS(pos, 0, <<0, 0, 1>>), <<>>, Objs0)]
    /\ objs = Objs0
    /\ ref = Objs0
    /\ steps = 0

\* addSensor(*args), the arguments drawn from argLists
AddSensorOf(argLists) ==
    \E args \in argLists :
        /\ sensors' = addSensor(sensors, args)
        /\ ref' = objs
        /\ last' = Call("addSensor", args, 0, <<0, 0, 1>>, SelfPosition, <<0, 0, 0>>, "", <<>>)
        /\ UNCHANGED <<rcs, objs>>

\* removeSensor(*args), the arguments drawn from argLists
RemoveSensorOf(argLists) ==
    \E args \in argLists :
        /\ sensors' = removeSensor(sensors, args)
        /\ ref' = objs
        /\ last' = Call("removeSensor", args, 0, <<0, 0, 1>>, SelfPosition, <<0, 0, 0>>, "", <<>>)
        /\ UNCHANGED <<rcs, objs>>

AddSensor ==
    /\ CollStep
    /\ AddSensorOf(ArgLists)

RemoveSensor ==
    /\ CollStep
    /\ RemoveSensorOf(ArgLists)

\* the same two calls with one sensor for argument
AddOne ==
    /\ CollStep
    /\ AddSensorOf(OneSensor)

RemoveOne ==
    /\ CollStep
    /\ RemoveSensorOf(OneSensor)

Plus ==
    /\ CollStep
    /\ \E other \in ArgObjects :
        LET r == add(sensors, other)
        IN  /\ last' = Call("add", <<other>>, 0, <<0, 0, 1>>, SelfPosition, <<0, 0, 0>>,
                            r.raised, r.result)
            /\ UNCHANGED <<rcs, sensors, objs, ref>>

Minus ==
    /\ CollStep
    /\ \E other \in ArgObjects :
        LET r == sub(sensors, other)
        IN  /\ last' = Call("sub", <<other>>, 0, <<0, 0, 1>>, SelfPosition, <<0, 0, 0>>,
                            r.raised, r.result)
            /\ UNCHANGED <<rcs, sensors, objs, ref>>

Become(c) ==
    /\ rcs' = c.rcs
    /\ objs' = c.objs
    /\ UNCHANGED <<sensors, ref>>

Move ==
    /\ CollStep
    /\ \E d \in Displacements :
        /\ Become(move(Here, d))
        /\ last' = Call("move", <<>>, 0, <<0, 0, 1>>, SelfPosition, d, "", <<>>)

Rotate ==
    /\ CollStep
    /\ \E anchor \in Anchors,
          rot \in {r \in Angles \X Axes : rotateDefined(Here, r[1], r[2])} :
        /\ Become(rotate(Here, rot[1], rot[2], anchor))
        /\ last' = Call("rotate", <<>>, rot[1], rot[2], anchor, <<0, 0, 0>>, "", <<>>)

SetPosition ==
    /\ CollStep
    /\ \E value \in PositionValues :
        /\ Become(setPosition(Here, value))
        /\ last' = Call("position", <<>>, 0, <<0, 0, 1>>, SelfPosition, value, "", <<>>)

SetAngle ==
    /\ CollStep
    /\ \E value \in {v \in AngleValues : rotateDefined(Here, v - rcs.angle, rcs.axis)} :
        /\ Become(setAngle(Here, value))
        /\ last' = Call("angle", <<>>, value, <<0, 0, 1>>, SelfPosition, <<0, 0, 0>>, "", <<>>)

SetAxis ==
    /\ CollStep
    /\ \E value \in {v \in Axes : setAxisDefined(Here, v)} :
        /\ Become(setAxis(Here, value))
        /\ last' = Call("axis", <<>>, 0, value, SelfPosition, <<0, 0, 0>>, "", <<>>)

\* a collection nobody calls
IdleCollection ==
    /\ rcs = RCS(<<0, 0, 0>>, 0, <<0, 0, 1>>)
    /\ sensors = <<>>
    /\ objs = Objs0
    /\ ref = Objs0
    /\ last = [op |-> "init", args |-> <<>>, angle |-> 0, axis |-> <<0, 0, 1>>,
               anchor |-> SelfPosition, value |-> <<0, 0, 0>>, raised |-> "",
               result |-> <<>>,
               before |-> Coll(RCS(<<0, 0, 0>>, 0, <<0, 0, 1>>), <<>>, Objs0)]
    /\ steps = 0

NextMembers ==
    \/ AddSensor
    \/ RemoveSensor
    \/ Plus
    \/ Minus

NextRigid ==
    \/ AddOne
    \/ RemoveOne
    \/ Move
    \/ Rotate
    \/ SetPosition
    \/ SetAngle
    \/ SetAxis

----------------------------------------------------------------------------
(* Field sources *)

\* The tabulated field of a data file at the point p of its grid: what
\* interpFunc returns there.  The tables cover every point the model queries.
interpFunc(data, p) ==
    CASE data = 1 -> <<p[1] * p[1], p[1] + p[2], 1 - p[3]>>
      [] data = 2 -> <<2 * p[2], p[3] - p[1] * p[2], 3>>

\* the centre of the table's bounding box: 0.5*(M+m)[:3]
Center(data) == CASE data = 1 -> <<0, 0, 0>> [] data = 2 -> <<1, 0, 0>>

\* DiscreteSourceBox(data, pos=pos, angle=angle, axis=axis)
DiscreteSourceBox(data, pos, angle, axis) ==
    [cls |-> "DiscreteSourceBox", data |-> data, center |-> Center(data),
     position |-> VAdd(Center(data), pos), angle |-> angle, axis |-> axis]

\* a library magnet Box, as a source: its field at p
Box(mag) ==
    [cls |-> "Box", data |-> mag, center |-> <<0, 0, 0>>, position |-> <<0, 0, 0>>,
     angle |-> 0, axis |-> <<0, 0, 1>>]

BoxField(mag, p) == <<mag + p[3], p[1] * p[2], mag * p[1] - p[2]>>

\* pos += self._center - self.position: the caller's array, after the call
Shifted(src, pos) ==
    [k \in 1..Len(pos) |-> VAdd(pos[k], VSub(src.center, src.position))]

\* the shape of what DiscreteSourceBox.getB returns
getBshape(src, n) == IF src.angle # 0 THEN "batch" ELSE IF n = 1 THEN "vector" ELSE "batch"

\* DiscreteSourceBox.getB(pos): the field vectors, their shape ((3,) or
\* (n,3)), and the caller's pos array as the call leaves it
getB(src, pos) ==
    LET moved == Shifted(src, pos)
        B == [k \in 1..Len(pos) |-> interpFunc(src.data, moved[k])]
    IN  [B |-> IF src.angle # 0
               THEN [k \in 1..Len(pos) |-> Rot(src.angle, src.axis, B[k])]
               ELSE B,
         shape |-> getBshape(src, Len(pos)),
         pos |-> moved]

\* s.getB(POS) of any source: a library source returns a batch and leaves
\* POS alone
SourceGetB(src, pos) ==
    IF src.cls = "DiscreteSourceBox" THEN getB(src, pos)
    ELSE [B |-> [k \in 1..Len(pos) |-> BoxField(src.data, pos[k])],
          shape |-> "batch", pos |-> pos]

\* [s.getB(POS) for s in sources]: each call is handed the array the calls
\* before it left behind
RECURSIVE FieldsOf(_, _)
FieldsOf(sources, pos) ==
    IF sources = <<>> THEN <<>>
    ELSE LET r == SourceGetB(Head(sources), pos)
         IN  <<r>> \o FieldsOf(Tail(sources), r.pos)

\* .sum(axis=0)
RECURSIVE SumFields(_, _)
SumFields(fields, n) ==
    IF fields = <<>> THEN [k \in 1..n |-> <<0, 0, 0>>]
    ELSE LET rest == SumFields(Tail(fields), n)
         IN  [k \in 1..n |-> VAdd(Head(fields).B[k], rest[k])]

\* a scalar angle, and a sequence of angles
Scalar(x) == [scalar |-> TRUE, v |-> <<x>>]

Batch(v) == [scalar |-> FALSE, v |-> v]

\* isinstance(ANG, (float,int)): np.tile(ANG, len(POS)); else
\* np.array(ANG).flatten()
ANGbatch(ANG, n) == IF ANG.scalar THEN [k \in 1..n |-> ANG.v[1]] ELSE ANG.v

\* np.array(AXIS).reshape(-1,3), and np.repeat([AXIS[0]], len(POS)) when its
\* length is not len(POS)
AXISbatch(AXIS, n) == IF Len(AXIS.v) # n THEN [k \in 1..n |-> AXIS.v[1]] ELSE AXIS.v

Warnings(ANG, AXIS, n) ==
    (IF ANG.scalar THEN <<"ANG and POS have different lengths">> ELSE <<>>)
    \o (IF Len(AXIS.v) # n THEN <<"AXIS and POS have different lengths">> ELSE <<>>)

\* getBarray(*sources, POS=POS, ANG=ANG, AXIS=AXIS).  POS is a single point
\* (POS.scalar) or a batch.  The library's angleAxisRotationV pairs the k-th
\* field vector with the k-th angle and axis: it fails when the batches differ
\* in length.
getBarray(sources, POS, ANG, AXIS) ==
    IF Len(sources) > 0
    THEN LET n == Len(POS.v)
             ang == ANGbatch(ANG, n)
             axes == AXISbatch(AXIS, n)
             fields == FieldsOf(sources, POS.v)
             B == SumFields(fields, n)
         IN  [error |-> IF Len(ang) # n THEN "angleAxisRotationV" ELSE "",
              B |-> IF Len(ang) # n THEN <<>>
                    ELSE [k \in 1..n |-> Rot(-ang[k], axes[k], B[k])],
              shape |-> IF POS.scalar THEN "vector" ELSE "batch",
              ANG |-> ang,
              AXIS |-> axes,
              queried |-> [k \in 1..Len(sources) |->
                              IF k = 1 THEN POS.v ELSE fields[k - 1].pos],
              warnings |-> Warnings(ANG, AXIS, n)]
    ELSE [error |-> "", B |-> <<<<0, 0, 0>>>>, shape |-> "batch", ANG |-> <<>>,
          AXIS |-> <<>>, queried |-> <<>>, warnings |-> <<"no magnetic source">>]

----------------------------------------------------------------------------
(* The field queries made *)

Sources ==
    {DiscreteSourceBox(1, <<0, 0, 0>>, 0, <<0, 0, 1>>),
     DiscreteSourceBox(1, <<1, 0, 0>>, 0, <<0, 0, 1>>),
     DiscreteSourceBox(2, <<0, -1, 0>>, 90, <<0, 0, 1>>),
     Box(1)}

SourceLists == UNION {[1..n -> Sources] : n \in 0..2}

Points == {<<0, 0, 0>>, <<1, 0, 0>>, <<0, 1, -1>>}

\* position batches of 1..MaxPts points, and single points
PosBatches ==
    {Batch(v) : v \in UNION {[1..n -> Points] : n \in 1..MaxPts}}
    \cup {Scalar(p) : p \in Points}

\* angle batches for n points: scalars, sequences of n angles, sequences of one
AngBatches(n) ==
    {Scalar(0), Scalar(90), Batch(<<90>>)}
    \cup {Batch([k \in 1..n |-> 90 * k])}

\* axis batches for n points: one axis, or n axes
AxisBatches(n) ==
    {Scalar(<<0, 0, 1>>), Scalar(<<1, 0, 0>>)}
    \cup {Batch([k \in 1..n |-> IF k = 1 THEN <<0, 1, 0>> ELSE <<0, 0, 1>>])}

NoQuery ==
    [op |-> "none", sources |-> <<>>, POS |-> Scalar(<<0, 0, 0>>), ANG |-> Scalar(0),
     AXIS |-> Scalar(<<0, 0, 1>>), out |-> <<>>, A |-> <<>>, B |-> <<>>, BA |-> <<>>]

IdleField == fq = NoQuery

\* a query depends on its arguments alone: each is made from the idle state
FieldStep ==
    /\ fq.op = "none"
    /\ UNCHANGED <<collVars, steps, surfVars, circVars>>

\* source.getB(pos) on a DiscreteSourceBox, pos an array of shape (n,3)
GetB ==
    /\ FieldStep
    /\ \E src \in {x \in Sources : x.cls = "DiscreteSourceBox"},
          POS \in {x \in PosBatches : ~x.scalar} :
          fq' = [NoQuery EXCEPT !.op = "getB", !.sources = <<src>>, !.POS = POS,
                                !.out = getB(src, POS.v)]

\* getBarray(*sources, POS=POS, ANG=ANG, AXIS=AXIS)
GetBarray ==
    /\ FieldStep
    /\ \E sources \in SourceLists, POS \in PosBatches :
          \E ANG \in AngBatches(Len(POS.v)), AXIS \in AxisBatches(Len(POS.v)) :
             fq' = [NoQuery EXCEPT !.op = "getBarray", !.sources = sources,
                                   !.POS = POS, !.ANG = ANG, !.AXIS = AXIS,
                                   !.out = getBarray(sources, POS, ANG, AXIS)]

\* getBarray(A, B), getBarray(A), getBarray(B) and getBarray(B, A), all with
\* the same POS, ANG and AXIS
Superpose ==
    /\ FieldStep
    /\ \E A \in Sources, B \in Sources, POS \in PosBatches :
          \E ANG \in AngBatches(Len(POS.v)), AXIS \in AxisBatches(Len(POS.v)) :
             fq' = [op |-> "superpose", sources |-> <<A, B>>,
                    POS |-> POS, ANG |-> ANG, AXIS |-> AXIS,
                    out |-> getBarray(<<A, B>>, POS, ANG, AXIS),
                    A |-> getBarray(<<A>>, POS, ANG, AXIS),
                    B |-> getBarray(<<B>>, POS, ANG, AXIS),
                    BA |-> getBarray(<<B, A>>, POS, ANG, AXIS)]

NextField ==
    \/ GetB
    \/ GetBarray
    \/ Superpose

----------------------------------------------------------------------------
(* SurfaceSensor.  An optional argument is a sequence: <<>> is None, a      *)
(* sequence of one number a scalar, a longer one the tuple given.           *)

None == <<>>

\* int(sqrt(N))
ISqrt(N) == CHOOSE r \in 0..N : r * r <= N /\ N < (r + 1) * (r + 1)

\* dim as update stores it: the argument, a scalar twice, or the stored one
DimOf(s, dim) ==
    IF dim = None THEN s.dimension
    ELSE IF Len(dim) = 1 THEN <<dim[1], dim[1]>>
    ELSE dim

\* Nelem as update stores it: the argument, a scalar N split in
\* (int(sqrt(N)), int(N/n1)), or the stored one
NelemOf(s, Nelem) ==
    IF Nelem = None THEN s.Nelem
    ELSE IF Len(Nelem) = 1 THEN <<ISqrt(Nelem[1]), Nelem[1] \div ISqrt(Nelem[1])>>
    ELSE Nelem

\* a collapse of the degenerate direction alone
CollapseOwnAxis(dim, Nelem) ==
    <<IF Nelem[1] = 1 THEN 0 ELSE dim[1], IF Nelem[2] = 1 THEN 0 ELSE dim[2]>>

\* if Nelem[0]==1 or Nelem[1]==1: dim = self._dimension = np.array([0,0])
Collapse(dim, Nelem) == IF Nelem[1] = 1 \/ Nelem[2] = 1 THEN <<0, 0>> ELSE dim

\* the i-th of n evenly spaced values from -w/2 to w/2 (i = 0..n-1):
\* np.mgrid[-w/2:w/2:n*1j]
Lin(w, n, i) ==
    IF n = 1 THEN (-w) \div 2 ELSE (2 * i * w - w * (n - 1)) \div (2 * (n - 1))

\* np.mgrid[...].reshape(3,-1).T: the grid in the local plane, x index first
Grid(dim, Nelem) ==
    [k \in 1..(Nelem[1] * Nelem[2]) |->
        <<Lin(dim[1], Nelem[1], (k - 1) \div Nelem[2]),
          Lin(dim[2], Nelem[2], (k - 1) % Nelem[2]),
          0>>]

\* update(pos, angle, axis, dim, Nelem)
update(s, pos, angle, axis, dim, Nelem) ==
    LET position2 == IF pos = None THEN s.position ELSE pos
        angle2 == IF angle = None THEN s.angle ELSE angle[1]
        axis2 == IF axis = None THEN s.axis ELSE axis
        Nelem2 == NelemOf(s, Nelem)
        dim2 == Collapse(DimOf(s, dim), Nelem2)
        POS == Grid(dim2, Nelem2)
    IN  [position |-> position2,
         angle |-> angle2,
         axis |-> axis2,
         dimension |-> dim2,
         Nelem |-> Nelem2,
         angles |-> [k \in 1..Len(POS) |-> angle2],
         axes |-> [k \in 1..Len(POS) |-> axis2],
         positions |-> [k \in 1..Len(POS) |-> VAdd(Rot(angle2, axis2, POS[k]), position2)]]

\* the RCS a SurfaceSensor is before its first update
BareSensor(pos, angle, axis) ==
    [position |-> pos, angle |-> angle, axis |-> axis, dimension |-> <<0, 0>>,
     Nelem |-> <<1, 1>>, angles |-> <<>>, axes |-> <<>>, positions |-> <<>>]

\* SurfaceSensor(Nelem=Nelem, dim=dim, pos=pos, angle=angle, axis=axis)
SurfaceSensor(Nelem, dim, pos, angle, axis) ==
    update(BareSensor(pos, angle, axis), None, None, None, dim, Nelem)

----------------------------------------------------------------------------
(* The calls made on a SurfaceSensor *)

DimArgs == {<<12>>, <<12, 24>>, <<24, 12>>}

NelemArgs == {<<1, 3>>, <<2, 1>>, <<3, 2>>, <<2>>, <<4>>}

PosArgs == {<<0, 0, 0>>, <<5, 0, -1>>}

OrientArgs == {<<0, <<0, 0, 1>>>>, <<90, <<1, 0, 0>>>>}

\* extent: the extent the caller supplied last, as a pair
Used(op, dim, Nelem, extent) ==
    [op |-> op, dim |-> dim, Nelem |-> Nelem,
     extent |-> IF dim = None THEN extent
                ELSE IF Len(dim) = 1 THEN <<dim[1], dim[1]>> ELSE dim,
     calls |-> IF op = "init" THEN 0 ELSE lastU.calls + 1]

ConstructSurface ==
    \E Nelem \in NelemArgs, dim \in DimArgs, pos \in PosArgs, o \in OrientArgs :
        /\ ss = SurfaceSensor(Nelem, dim, pos, o[1], o[2])
        /\ lastU = Used("init", dim, Nelem, <<0, 0>>)

SurfStep ==
    /\ lastU.calls < MaxSteps
    /\ UNCHANGED <<collVars, steps, fieldVars, circVars>>

\* update(...) with any of its arguments given
Update ==
    /\ SurfStep
    /\ \E pos \in {None} \cup PosArgs, o \in {None} \cup OrientArgs,
          dim \in {None} \cup DimArgs, Nelem \in {None} \cup NelemArgs :
          /\ ss' = update(ss, pos, IF o = None THEN None ELSE <<o[1]>>,
                          IF o = None THEN None ELSE o[2], dim, Nelem)
          /\ lastU' = Used("update", dim, Nelem, lastU.extent)

\* dimension.setter
SetDimension ==
    /\ SurfStep
    /\ \E val \in DimArgs :
          /\ ss' = update(ss, None, None, None, val, None)
          /\ lastU' = Used("dimension", val, None, lastU.extent)

\* Nelem.setter
SetNelem ==
    /\ SurfStep
    /\ \E val \in NelemArgs :
          /\ ss' = update(ss, None, None, None, None, val)
          /\ lastU' = Used("Nelem", None, val, lastU.extent)

\* the positions property: update() with no argument, then self._positions
ReadPositions ==
    /\ SurfStep
    /\ ss' = update(ss, None, None, None, None, None)
    /\ lastU' = Used("positions", None, None, lastU.extent)

NextSurface ==
    \/ Update
    \/ SetDimension
    \/ SetNelem
    \/ ReadPositions

----------------------------------------------------------------------------
(* CircularSensorArray: a SensorCollection of SurfaceSensors.  Its children *)
(* are kept with it, in construction order.                                 *)

\* the k-th of np.linspace(start_angle, start_angle+360, n+1)[:-1], k = 0..n-1
Theta(start_angle, n, k) == start_angle + (k * 360) \div n

\* (Rs*np.cos(t), Rs*np.sin(t), 0)
OnCircle(Rs, t) == <<Rs * CosDeg(t), Rs * SinDeg(t), 0>>

\* initialize(Rs, start_angle, elem_dim, Nelem)
initialize(a, Rs, start_angle, elem_dim, Nelem) ==
    LET Rs2 == IF Rs = None THEN a.Rs ELSE Rs[1]
        start2 == IF start_angle = None THEN a.start_angle ELSE start_angle[1]
        dim2 == IF elem_dim = None THEN a.elem_dim ELSE elem_dim
        Nelem2 == IF Nelem = None THEN a.Nelem ELSE Nelem
    IN  [a EXCEPT !.Rs = Rs2, !.start_angle = start2, !.elem_dim = dim2,
                  !.Nelem = Nelem2,
                  !.sensors = [k \in 1..Len(a.sensors) |->
                      update(a.sensors[k],
                             OnCircle(Rs2, Theta(start2, Len(a.sensors), k - 1)),
                             <<0>>, <<0, 0, 1>>, dim2, Nelem2)]]

\* CircularSensorArray(Rs, elem_dim, Nelem, num_of_sensors, start_angle)
CircularSensorArray(Rs, elem_dim, Nelem, num_of_sensors, start_angle) ==
    initialize([Rs |-> Rs, start_angle |-> start_angle, elem_dim |-> elem_dim,
                Nelem |-> Nelem,
                rcs |-> RCS(<<0, 0, 0>>, 0, <<0, 0, 1>>),
                sensors |-> [k \in 1..num_of_sensors |->
                    SurfaceSensor(Nelem, elem_dim, <<k - 1, 0, 0>>, 0, <<0, 0, 1>>)]],
               <<Rs>>, <<start_angle>>, elem_dim, None)

\* SensorCollection.move on the array
arrayMove(a, displacement) ==
    [a EXCEPT !.rcs = RCSmove(a.rcs, displacement),
              !.sensors = [k \in 1..Len(a.sensors) |-> RCSmove(a.sensors[k], displacement)]]

\* SensorCollection.rotate on the array
arrayRotate(a, angle, axis, anchor) ==
    LET r2 == RCSrotate(a.rcs, angle, axis, anchor)
    IN  [a EXCEPT !.rcs = r2,
                  !.sensors = [k \in 1..Len(a.sensors) |->
                      RCSrotate(a.sensors[k], angle, axis, ResolveAnchor(r2, anchor))]]

arrayRotateDefined(a, angle, axis) ==
    /\ RCSrotateDefined(a.rcs, angle, axis)
    /\ \A k \in 1..Len(a.sensors) : RCSrotateDefined(a.sensors[k], angle, axis)

----------------------------------------------------------------------------
(* The calls made on a CircularSensorArray *)

\* numbers of sensors whose places on the circle are lattice points
SensorCounts == {1, 2, 4}

Radii == {2, 3}

StartAngles == {0, 90}

ElemDims == {<<12, 12>>}

ElemGrids == {<<2, 2>>, <<1, 2>>}

Did(op, n) == [op |-> op, calls |-> n]

ConstructCircular ==
    \E Rs \in Radii, n \in SensorCounts, start \in StartAngles, Nelem \in ElemGrids :
        /\ csa = CircularSensorArray(Rs, <<12, 12>>, Nelem, n, start)
        /\ lastC = Did("init", 0)

CircStep ==
    /\ lastC.calls < MaxSteps
    /\ UNCHANGED <<collVars, steps, fieldVars, surfVars>>

Initialize ==
    /\ CircStep
    /\ \E Rs \in {None} \cup {<<r>> : r \in Radii},
          start \in {None} \cup {<<t>> : t \in StartAngles},
          dim \in {None} \cup ElemDims, Nelem \in {None} \cup ElemGrids :
          /\ csa' = initialize(csa, Rs, start, dim, Nelem)
          /\ lastC' = Did("initialize", lastC.calls + 1)

ArrayMove ==
    /\ CircStep
    /\ \E d \in Displacements :
          /\ csa' = arrayMove(csa, d)
          /\ lastC' = Did("move", lastC.calls + 1)

ArrayRotate ==
    /\ CircStep
    /\ \E rot \in {r \in Angles \X Axes : arrayRotateDefined(csa, r[1], r[2])} :
          /\ csa' = arrayRotate(csa, rot[1], rot[2], SelfPosition)
          /\ lastC' = Did("rotate", lastC.calls + 1)

NextCircular ==
    \/ Initialize
    \/ ArrayMove
    \/ ArrayRotate

----------------------------------------------------------------------------
(* Specifications: one per object under call; the other objects stay as     *)
(* constructed.                                                             *)

IdleSurface ==
    /\ ss = SurfaceSensor(<<3, 2>>, <<12, 12>>, <<0, 0, 0>>, 0, <<0, 0, 1>>)
    /\ lastU = [op |-> "init", dim |-> <<12, 12>>, Nelem |-> <<3, 2>>,
                extent |-> <<12, 12>>, calls |-> 0]

IdleCircular ==
    /\ csa = CircularSensorArray(2, <<12, 12>>, <<2, 2>>, 1, 0)
    /\ lastC = [op |-> "init", calls |-> 0]

\* Collections under addSensor, removeSensor, + and -
InitMembers ==
    /\ Construct({<<>>} \cup ArgLists)
    /\ IdleField
    /\ IdleSurface
    /\ IdleCircular

SpecMembers == InitMembers /\ [][NextMembers]_vars

\* Collections under move, rotate and the position, angle and axis setters
InitRigid ==
    /\ Construct(SomeSensors)
    /\ IdleField
    /\ IdleSurface
    /\ IdleCircular

SpecRigid == InitRigid /\ [][NextRigid]_vars

\* Field queries
InitField ==
    /\ IdleCollection
    /\ IdleField
    /\ IdleSurface
    /\ IdleCircular

SpecField == InitField /\ [][NextField]_vars

\* A SurfaceSensor under update
InitSurface ==
    /\ IdleCollection
    /\ IdleField
    /\ ConstructSurface
    /\ IdleCircular

SpecSurface == InitSurface /\ [][NextSurface]_vars

\* A CircularSensorArray under initialize, move and rotate
InitCircular ==
    /\ IdleCollection
    /\ IdleField
    /\ IdleSurface
    /\ ConstructCircular

SpecCircular == InitCircular /\ [][NextCircular]_vars

----------------------------------------------------------------------------
(* Properties *)

\* the children of the collection, by identity
Children == Ids(sensors)

\* C1: any two children of a collection are as far from each other after any
\* sequence of move and rotate calls and of position, angle and axis
\* assignments as they were before it (ref holds the children as they were
\* when the sequence began: at the last change of membership).
RigidBody ==
    \A a \in Children, b \in Children :
        Dist2(objs[a].position, objs[b].position) = Dist2(ref[a].position, ref[b].position)

\* two children that a rotation has turned about each other, after a sequence
\* of several calls that ended with a rotation or an assignment
RigidBodyMoved ==
    /\ steps = MaxSteps
    /\ last.op \in {"rotate", "angle", "axis"}
    /\ last.before.objs # ref
    /\ \E a \in Children, b \in Children :
          /\ a # b
          /\ objs[a].position # ref[a].position
          /\ VSub(objs[a].position, objs[b].position) # VSub(ref[a].position, ref[b].position)
    /\ \E a \in Children : SensorObj(a).cls = "SurfaceSensor"

\* C2: the child list holds sensors only, never a SensorCollection, and no
\* child twice; an addSensor whose arguments are all children already leaves
\* the list as it was.
NoCollectionNoDuplicate ==
    /\ \A k \in 1..Len(sensors) : IsSensor(sensors[k]) /\ ~IsSensorCollection(sensors[k])
    /\ \A j \in 1..Len(sensors), k \in 1..Len(sensors) : j # k => sensors[j] # sensors[k]
    /\ (/\ last.op \in {"init", "addSensor"}
        /\ \A k \in 1..Len(last.args) :
              IsSensor(last.args[k]) /\ In(last.args[k], last.before.sensors))
       => sensors = last.before.sensors

\* addSensor is handed a collection whose children are all children already,
\* and a sensor that is a child already, of a collection of several
AddedAgain ==
    /\ last.op = "addSensor"
    /\ Len(last.before.sensors) >= 2
    /\ \E k \in 1..Len(last.args) :
          IsSensor(last.args[k]) /\ In(last.args[k], last.before.sensors)
    /\ \E k \in 1..Len(last.args) :
          /\ IsSensorCollection(last.args[k])
          /\ \A j \in 1..Len(last.args[k].sensors) :
                In(last.args[k].sensors[j], last.before.sensors)
    /\ sensors = last.before.sensors

\* the elementwise sum of two batches of field vectors
SumB(X, Y) == [k \in 1..Len(X) |-> VAdd(X[k], Y[k])]

\* C3: superposition: getBarray(A, B) is the elementwise sum of getBarray(A)
\* and getBarray(B) at the same POS, ANG and AXIS, and getBarray(B, A) is the
\* same, for any two sources, DiscreteSourceBox sources placed at a non-zero
\* pos included.
Superposition ==
    (fq.op = "superpose" /\ fq.A.error = "" /\ fq.B.error = "")
    => /\ fq.out.error = ""
       /\ fq.out.B = SumB(fq.A.B, fq.B.B)
       /\ fq.BA.B = fq.out.B

\* C4: whenever initialize has just run (at construction or later, after the
\* array was moved or rotated), child k of n is at distance Rs from the
\* collection's position in the direction start_angle + k*360/n, with angle 0
\* and axis (0,0,1).
PlacedOnCircle ==
    lastC.op \in {"init", "initialize"}
    => \A k \in 1..Len(csa.sensors) :
          /\ csa.sensors[k].position =
                VAdd(csa.rcs.position,
                     OnCircle(csa.Rs, Theta(csa.start_angle, Len(csa.sensors), k - 1)))
          /\ csa.sensors[k].angle = 0
          /\ csa.sensors[k].axis = <<0, 0, 1>>

\* C5: a SurfaceSensor with a grid dimension equal to 1 has extent (0,0) and
\* nx*ny sample positions that are all the sensor's position.
Degenerate ==
    (ss.Nelem[1] = 1 \/ ss.Nelem[2] = 1)
    => /\ ss.dimension = <<0, 0>>
       /\ Len(ss.positions) = ss.Nelem[1] * ss.Nelem[2]
       /\ \A k \in 1..Len(ss.positions) : ss.positions[k] = ss.position

\* an update that supplies an extent and a grid of one row and several
\* columns to a sensor that is away from the origin and turned
DegenerateUpdated ==
    /\ lastU.op = "update"
    /\ lastU.dim # None
    /\ lastU.extent[1] > 0
    /\ lastU.extent[2] > 0
    /\ ss.Nelem[1] = 1
    /\ ss.Nelem[2] > 1
    /\ ss.position # <<0, 0, 0>>
    /\ ss.angle # 0

\* C6: rotate(angle, axis) without an anchor leaves the collection's position
\* where it was, and turns every child by the angle about the axis through
\* the position the collection had when rotate was called.
RotateAboutCurrentPosition ==
    (last.op = "rotate" /\ IsSelfPosition(last.anchor))
    => /\ rcs.position = last.before.rcs.position
       /\ \A i \in Children :
             objs[i] = RCSrotate(last.before.objs[i], last.angle, last.axis,
                                 last.before.rcs.position)

\* a rotate without an anchor of a collection that is no longer where any
\* collection is constructed, and that moves a child
RotatedAfterMove ==
    /\ last.op = "rotate"
    /\ IsSelfPosition(last.anchor)
    /\ last.before.rcs.position \notin PositionValues
    /\ \E i \in Children : objs[i].position # last.before.objs[i].position

\* neither a sensor nor a SensorCollection
Invalid(x) == ~IsSensor(x) /\ ~IsSensorCollection(x)

\* C7: an item that is neither a sensor nor a SensorCollection, handed to
\* addSensor, to the constructor or to +, raises an error, and the child list
\* stays as it was.
InvalidMemberRejected ==
    (/\ last.op \in {"init", "addSensor", "add"}
     /\ \E k \in 1..Len(last.args) : Invalid(last.args[k]))
    => /\ last.raised # ""
       /\ sensors = last.before.sensors

\* n copies of x
Repeat(x, n) == [k \in 1..n |-> x]

\* C8: in getBarray an ANG or AXIS with fewer entries than POS (a scalar ANG,
\* a shorter sequence) has its first element repeated for every point, with
\* a warning, and a field vector is returned for every point: the same
\* vectors as with the repeated batch given in full.
ShortBatchRepeated ==
    (/\ fq.op = "getBarray"
     /\ Len(fq.sources) > 0
     /\ (fq.ANG.scalar \/ Len(fq.ANG.v) < Len(fq.POS.v) \/ Len(fq.AXIS.v) < Len(fq.POS.v)))
    => LET n == Len(fq.POS.v)
           ANG == IF fq.ANG.scalar \/ Len(fq.ANG.v) < n
                  THEN Batch(Repeat(fq.ANG.v[1], n)) ELSE fq.ANG
           AXIS == IF Len(fq.AXIS.v) < n THEN Batch(Repeat(fq.AXIS.v[1], n)) ELSE fq.AXIS
       IN  /\ fq.out.error = ""
           /\ fq.out.warnings # <<>>
           /\ Len(fq.out.B) = n
           /\ fq.out.B = getBarray(fq.sources, fq.POS, ANG, AXIS).B

\* C9: DiscreteSourceBox.getB returns a single field vector for a batch of
\* one position, wherever the source is and however it is turned, and one
\* field vector per position for a batch of two or more.
SingleVector ==
    fq.op = "getB"
    => /\ Len(fq.out.B) = Len(fq.POS.v)
       /\ fq.out.shape = (IF Len(fq.POS.v) = 1 THEN "vector" ELSE "batch")

\* the sample positions in the sensor's local plane
Local(s) ==
    [k \in 1..Len(s.positions) |-> Rot(-s.angle, s.axis, VSub(s.positions[k], s.position))]

\* the points L span [-w/2, w/2] in coordinate c
Spans(L, c, w) ==
    /\ \A k \in 1..Len(L) : -w <= 2 * L[k][c] /\ 2 * L[k][c] <= w
    /\ \E k \in 1..Len(L) : 2 * L[k][c] = -w
    /\ \E k \in 1..Len(L) : 2 * L[k][c] = w

\* C10: whenever both grid dimensions are greater than 1 the sample grid
\* spans [-w/2, w/2] x [-h/2, h/2] in the local plane, (w, h) the extent the
\* caller supplied last, also after an update that made the grid degenerate.
SpansSuppliedExtent ==
    (ss.Nelem[1] > 1 /\ ss.Nelem[2] > 1)
    => /\ Spans(Local(ss), 1, lastU.extent[1])
       /\ Spans(Local(ss), 2, lastU.extent[2])


\* C11: a field query leaves its input alone: DiscreteSourceBox.getB(pos)
\* leaves the caller's position batch as it was, a second getB with the same
\* batch returns the same field, and getBarray queries every source at the
\* positions it was given.
QueryLeavesPositions ==
    /\ fq.op = "getB"
       => /\ fq.out.pos = fq.POS.v
          /\ getB(fq.sources[1], fq.out.pos).B = fq.out.B
    /\ (fq.op = "getBarray" /\ Len(fq.sources) > 0)
       => \A k \in 1..Len(fq.sources) : fq.out.queried[k] = fq.POS.v

====
